---- MODULE Spec2Model ----
(***************************************************************************)
(* Model of mock-endpoints.py: two HTTPServer listeners (port 8081 labelled *)
(* "AWS-API", port 8082 labelled "Azure-API"), each run by a daemon thread, *)
(* the MockEndpointHandler that answers POST and GET, and the main thread   *)
(* that waits for an interrupt.                                             *)
(*                                                                          *)
(* A request body is a sequence of lexical tokens (the characters inside a  *)
(* token are not modelled).  json.loads and json.dumps are modelled by what *)
(* they do on token sequences; Python values are tagged tuples.             *)
(***************************************************************************)
EXTENDS Integers, Sequences, FiniteSets, TLC

(***************************************************************************)
(* Bounds of the model.                                                     *)
(***************************************************************************)
\* connections that may wait in a listener's accept queue
MaxBacklog == 1
\* time.time() returns a value in 0..MaxTime
MaxTime == 1

(***************************************************************************)
(* Program constants.                                                       *)
(***************************************************************************)
AWS_PORT == 8081
AZURE_PORT == 8082
Ports == {AWS_PORT, AZURE_PORT}

\* the name argument each listener thread is started with
NameArg_same(port) == "AWS-API"
NameArg(port) == IF port = AWS_PORT THEN "AWS-API" ELSE "Azure-API"

\* BaseHTTPRequestHandler.protocol_version, which MockEndpointHandler inherits
\* unchanged
protocol_version_http11 == "HTTP/1.1"
protocol_version == "HTTP/1.0"

\* HTTPServer.server_bind names the server after the host before line 75 runs
DefaultServerName == "localhost"

(***************************************************************************)
(* Lexical tokens.  k is the token's kind, s its text (for a string token   *)
(* the string it denotes, for a number token the form of the literal:      *)
(* "int" digits only, "frac" with a fraction, "exp" with an exponent) and   *)
(* n the value of a number token.                                           *)
(***************************************************************************)
Tok(k, s, n) == [k |-> k, s |-> s, n |-> n]
LBRACE == Tok("lbrace", "{", 0)
RBRACE == Tok("rbrace", "}", 0)
LBRACK == Tok("lbrack", "[", 0)
RBRACK == Tok("rbrack", "]", 0)
COLON == Tok("colon", ":", 0)
COMMA == Tok("comma", ",", 0)
STR(s) == Tok("string", s, 0)
NUM(form, n) == Tok("number", form, n)
LIT(s) == Tok("literal", s, 0)
\* text that starts no JSON value, such as not-json
JUNK == Tok("junk", "not-json", 0)
\* a byte sequence that is not UTF-8, such as 0xff
BADBYTE == Tok("badbyte", "\\xff", 0)
EOF == Tok("eof", "", 0)

At(s, i) == IF i >= 1 /\ i <= Len(s) THEN s[i] ELSE EOF

(***************************************************************************)
(* Python values: <<"NoneType">>, <<"bool", b>>, <<"int", n>>,              *)
(* <<"float", n>>, <<"str", s>>, <<"list", seq>>, <<"dict", pairs>> where   *)
(* pairs is a sequence of <<key, value>> with distinct keys in insertion    *)
(* order.                                                                   *)
(***************************************************************************)
PyNone == <<"NoneType">>
PyStr(s) == <<"str", s>>
PyType(v) == v[1]

RECURSIVE dict_set(_, _, _)
\* d[k] = v on the pair sequence d
dict_set(d, k, v) ==
    IF d = <<>> THEN << <<k, v>> >>
    ELSE IF Head(d)[1] = k THEN << <<k, v>> >> \o Tail(d)
    ELSE << Head(d) >> \o dict_set(Tail(d), k, v)

RECURSIVE dict_from_pairs(_, _)
\* dict(pairs): a later pair with the same key replaces the earlier value
dict_from_pairs(pairs, acc) ==
    IF pairs = <<>> THEN acc
    ELSE dict_from_pairs(Tail(pairs), dict_set(acc, Head(pairs)[1], Head(pairs)[2]))

RECURSIVE dict_lookup(_, _, _)
dict_lookup(d, k, default) ==
    IF d = <<>> THEN default
    ELSE IF Head(d)[1] = k THEN Head(d)[2]
    ELSE dict_lookup(Tail(d), k, default)

\* data.get(key, default): only a dict has the method
HasGet(data) == PyType(data) = "dict"
dict_get(data, key, default) == dict_lookup(data[2], key, default)

(***************************************************************************)
(* json.loads.  A scan result is [ok, val, end, msg]: end is the index      *)
(* after the value; msg is "StopIteration" when no value starts at the      *)
(* index, and the JSONDecodeError message otherwise.                        *)
(***************************************************************************)
ScanOk(v, e) == [ok |-> TRUE, val |-> v, end |-> e, msg |-> ""]
ScanErr(m) == [ok |-> FALSE, val |-> PyNone, end |-> 0, msg |-> m]

py_number(t) == IF t.s = "int" THEN <<"int", t.n>> ELSE <<"float", t.n>>
py_literal(t) ==
    IF t.s = "null" THEN PyNone ELSE <<"bool", t.s = "true">>

RECURSIVE scan_once(_, _)
RECURSIVE JSONObjectLoop(_, _, _)
RECURSIVE JSONArrayLoop(_, _, _)

\* json.decoder.JSONObject, from the first key on
JSONObjectLoop(s, i, pairs) ==
    IF At(s, i + 1).k # "colon" THEN ScanErr("Expecting ':' delimiter")
    ELSE LET v == scan_once(s, i + 2) IN
         IF ~v.ok
         THEN (IF v.msg = "StopIteration" THEN ScanErr("Expecting value") ELSE v)
         ELSE LET pairs2 == Append(pairs, <<s[i].s, v.val>>)
                  nc == At(s, v.end)
              IN IF nc.k = "rbrace"
                 THEN ScanOk(<<"dict", dict_from_pairs(pairs2, <<>>)>>, v.end + 1)
                 ELSE IF nc.k # "comma" THEN ScanErr("Expecting ',' delimiter")
                 ELSE IF At(s, v.end + 1).k # "string"
                 THEN ScanErr("Expecting property name enclosed in double quotes")
                 ELSE JSONObjectLoop(s, v.end + 1, pairs2)

\* json.decoder.JSONObject: s[i] is the token after the opening brace
JSONObject(s, i) ==
    IF At(s, i).k # "string"
    THEN (IF At(s, i).k = "rbrace" THEN ScanOk(<<"dict", <<>>>>, i + 1)
          ELSE ScanErr("Expecting property name enclosed in double quotes"))
    ELSE JSONObjectLoop(s, i, <<>>)

\* json.decoder.JSONArray, from an element on
JSONArrayLoop(s, i, values) ==
    LET v == scan_once(s, i) IN
    IF ~v.ok
    THEN (IF v.msg = "StopIteration" THEN ScanErr("Expecting value") ELSE v)
    ELSE LET values2 == Append(values, v.val)
             nc == At(s, v.end)
         IN IF nc.k = "rbrack" THEN ScanOk(<<"list", values2>>, v.end + 1)
            ELSE IF nc.k # "comma" THEN ScanErr("Expecting ',' delimiter")
            ELSE JSONArrayLoop(s, v.end + 1, values2)

JSONArray(s, i) ==
    IF At(s, i).k = "rbrack" THEN ScanOk(<<"list", <<>>>>, i + 1)
    ELSE JSONArrayLoop(s, i, <<>>)

\* json.scanner.py_make_scanner._scan_once
scan_once(s, i) ==
    LET t == At(s, i) IN
    CASE t.k = "string" -> ScanOk(PyStr(t.s), i + 1)
      [] t.k = "lbrace" -> JSONObject(s, i + 1)
      [] t.k = "lbrack" -> JSONArray(s, i + 1)
      [] t.k = "literal" -> ScanOk(py_literal(t), i + 1)
      [] t.k = "number" -> ScanOk(py_number(t), i + 1)
      [] OTHER -> ScanErr("StopIteration")

\* body.decode('utf-8'): [ok, text, msg]
bytes_decode(body) ==
    IF \E i \in 1..Len(body) : body[i].k = "badbyte"
    THEN [ok |-> FALSE, text |-> <<>>,
          msg |-> "'utf-8' codec can't decode byte 0xff"]
    ELSE [ok |-> TRUE, text |-> body, msg |-> ""]

\* json.loads(text): JSONDecoder.decode, [ok, val, msg]
json_loads(text) ==
    LET r == scan_once(text, 1) IN
    IF ~r.ok
    THEN [ok |-> FALSE, val |-> PyNone,
          msg |-> IF r.msg = "StopIteration" THEN "Expecting value" ELSE r.msg]
    ELSE IF r.end # Len(text) + 1
    THEN [ok |-> FALSE, val |-> PyNone, msg |-> "Extra data"]
    ELSE [ok |-> TRUE, val |-> r.val, msg |-> ""]

(***************************************************************************)
(* json.dumps: the token sequence of a Python value.                        *)
(***************************************************************************)
RECURSIVE json_encode(_)
RECURSIVE encode_items(_)
RECURSIVE encode_pairs(_)

encode_items(vs) ==
    IF vs = <<>> THEN <<>>
    ELSE IF Len(vs) = 1 THEN json_encode(vs[1])
    ELSE json_encode(vs[1]) \o <<COMMA>> \o encode_items(Tail(vs))

encode_pairs(ps) ==
    IF ps = <<>> THEN <<>>
    ELSE LET one == <<STR(ps[1][1]), COLON>> \o json_encode(ps[1][2]) IN
         IF Len(ps) = 1 THEN one ELSE one \o <<COMMA>> \o encode_pairs(Tail(ps))

json_encode(v) ==
    CASE PyType(v) = "NoneType" -> <<LIT("null")>>
      [] PyType(v) = "bool" -> <<LIT(IF v[2] THEN "true" ELSE "false")>>
      [] PyType(v) = "int" -> <<NUM("int", v[2])>>
      [] PyType(v) = "float" -> <<NUM("frac", v[2])>>
      [] PyType(v) = "str" -> <<STR(v[2])>>
      [] PyType(v) = "list" -> <<LBRACK>> \o encode_items(v[2]) \o <<RBRACK>>
      [] PyType(v) = "dict" -> <<LBRACE>> \o encode_pairs(v[2]) \o <<RBRACE>>

json_dumps(v) == json_encode(v)

(***************************************************************************)
(* Requests a client may send.                                              *)
(***************************************************************************)
B_txn == <<LBRACE, STR("id"), COLON, STR("txn-42"), RBRACE>>
B_int == <<LBRACE, STR("id"), COLON, NUM("int", 7), RBRACE>>
B_float == <<LBRACE, STR("id"), COLON, NUM("exp", 100), RBRACE>>
B_null == <<LBRACE, STR("id"), COLON, LIT("null"), RBRACE>>
B_arr == <<LBRACE, STR("id"), COLON, LBRACK, NUM("int", 7), RBRACK, RBRACE>>
B_obj == <<LBRACE, STR("id"), COLON, LBRACE, RBRACE, RBRACE>>
B_noid == <<LBRACE, STR("name"), COLON, NUM("int", 7), RBRACE>>
B_two == <<LBRACE, STR("name"), COLON, NUM("int", 7), COMMA,
           STR("id"), COLON, LIT("true"), RBRACE>>
B_empty == <<LBRACE, RBRACE>>
B_list == <<LBRACK, NUM("int", 7), COMMA, STR("id"), RBRACK>>
B_str == <<STR("txn-42")>>
B_junk == <<JUNK>>
B_extra == <<LBRACE, RBRACE, JUNK>>
B_bad == <<BADBYTE>>

\* what the client puts after the headers
Sent ==
    {B_txn, B_int, B_float, B_null, B_arr, B_obj, B_noid, B_two,
     B_empty, B_list, B_str, B_junk, B_extra, B_bad}

\* request targets: an ordinary path, and a target urlsplit rejects
GoodPath == "/health"
BadPath == "http://[/"
Paths == {GoodPath, BadPath}

\* the Content-Length header: absent, not a number, zero, the length of what
\* the client sends, or one token less (the body is then cut short)
AbsentCL == [kind |-> "absent", n |-> 0]
BadCL == [kind |-> "bad", n |-> 0]
ContentLengths(sent) ==
    {AbsentCL, BadCL} \cup
    {[kind |-> "int", n |-> k] : k \in {0, Len(sent) - 1, Len(sent)}}

\* the body of a request as HTTP frames it: the first Content-Length tokens
\* of what the client sends, nothing when the header is absent, and no body
\* at all when the header is not a number
Framed(cl) == cl.kind # "bad"
FramedBody(sent, cl) ==
    IF cl.kind = "int" THEN SubSeq(sent, 1, cl.n) ELSE <<>>

Requests ==
    {[method |-> "GET", path |-> p, cl |-> c, sent |-> B_int, ka |-> k] :
        p \in Paths, k \in BOOLEAN,
        c \in {AbsentCL, [kind |-> "int", n |-> Len(B_int)]}} \cup
    UNION {{[method |-> "POST", path |-> GoodPath, cl |-> c, sent |-> b, ka |-> k] :
              k \in BOOLEAN, c \in ContentLengths(b)} : b \in Sent} \cup
    UNION {{[method |-> "POST", path |-> BadPath, cl |-> c, sent |-> b, ka |-> k] :
              k \in BOOLEAN, c \in {BadCL, [kind |-> "int", n |-> Len(b)]}} :
           b \in {B_txn, B_noid, B_list, B_junk}}

(***************************************************************************)
(* State.                                                                   *)
(***************************************************************************)
VARIABLES
    main_pc,      \* where the main thread is (lines 79-100)
    main_out,     \* what the main thread has printed
    thread,       \* per port: where the listener thread is in run_mock_server
    server_name,  \* per port: server.server_name
    backlog,      \* per port: connections waiting to be accepted
    handlers      \* per port: the handler instances whose request is in progress

vars == <<main_pc, main_out, thread, server_name, backlog, handlers>>

NoLine == [kind |-> "none", name |-> "", n |-> 0, id |-> PyNone, msg |-> ""]

\* what a handler wrote with one flush of the headers or one wfile.write
HeadWrite(status) ==
    [part |-> "head", status |-> status, ctype |-> "application/json", text |-> <<>>]
BodyWrite(tokens) ==
    [part |-> "body", status |-> 0, ctype |-> "", text |-> tokens]

\* MockEndpointHandler.__init__: the counter is set before the request is read
NewHandler ==
    [pc |-> "init", request_count |-> 0, method |-> "", path |-> "",
     framed |-> TRUE, req_body |-> <<>>,
     nread |-> 0, body |-> <<>>, data |-> PyNone, exc |-> "", ts |-> 0,
     close_connection |-> TRUE, wire |-> <<>>, console |-> NoLine]

Init ==
    /\ main_pc = "start_aws"
    /\ main_out = <<>>
    /\ thread = [p \in Ports |-> "unstarted"]
    /\ server_name = [p \in Ports |-> ""]
    /\ backlog = [p \in Ports |-> 0]
    /\ handlers = [p \in Ports |-> <<>>]

\* the process exists until the main thread ends; the listener threads are
\* daemon threads and end with it
Alive == main_pc # "exited"

(***************************************************************************)
(* The handler.                                                             *)
(***************************************************************************)
\* urlparse(self.path): urlsplit raises ValueError("Invalid IPv6 URL") when the
\* netloc has an unmatched bracket
urlparse_raises(path) == path = BadPath

\* int(self.headers.get('Content-Length', 0)): [ok, n]
content_length(cl) ==
    CASE cl.kind = "absent" -> [ok |-> TRUE, n |-> 0]
      [] cl.kind = "int" -> [ok |-> TRUE, n |-> cl.n]
      [] OTHER -> [ok |-> FALSE, n |-> 0]

\* self.rfile.read(n)
rfile_read(sent, n) == SubSeq(sent, 1, n)

\* BaseHTTPRequestHandler.parse_request: a connection is kept open only when
\* the handler speaks HTTP/1.1
parse_close_connection(ka) == ~(ka /\ protocol_version = "HTTP/1.1")

\* lines 29-30 inside the try: decode, parse, data.get for the log line.
\* [ok, data, msg]: msg is str(e) of the exception raised
try_decode(body) ==
    LET d == bytes_decode(body) IN
    IF ~d.ok THEN [ok |-> FALSE, data |-> PyNone, msg |-> d.msg]
    ELSE LET j == json_loads(d.text) IN
         IF ~j.ok THEN [ok |-> FALSE, data |-> PyNone, msg |-> j.msg]
         ELSE IF ~HasGet(j.val)
         THEN [ok |-> FALSE, data |-> PyNone,
               msg |-> "'" \o PyType(j.val) \o "' object has no attribute 'get'"]
         ELSE [ok |-> TRUE, data |-> j.val, msg |-> ""]

\* line 30: data.get('id', 'unknown')
LoggedId(data) == dict_get(data, "id", PyStr("unknown"))

\* line 39: data.get('id')
ResponseId(data) == dict_get(data, "id", PyNone)

\* lines 36-41
SuccessRecord(name, data, now) ==
    <<"dict", << <<"success", <<"bool", TRUE>> >>,
                 <<"message", PyStr("Data saved successfully to " \o name)>>,
                 <<"id", ResponseId(data)>>,
                 <<"timestamp", <<"float", now>> >> >> >>

\* line 53
ErrorRecord(msg) == <<"dict", << <<"error", PyStr(msg)>> >> >>

\* lines 61-65
HealthRecord(name, now) ==
    <<"dict", << <<"status", PyStr("healthy")>>,
                 <<"service", PyStr(name)>>,
                 <<"timestamp", <<"float", now>> >> >> >>

\* the two writes of a response: the flushed status line and headers
\* (send_response, send_header, end_headers), then wfile.write of the body
Respond(wire, status, record) ==
    wire \o <<HeadWrite(status), BodyWrite(json_dumps(record))>>

\* do_POST up to the sleep (lines 19-33), or through the except clause
\* (lines 48-54), or out of do_POST by an exception raised before the try
do_POST_begin(h, name, req) ==
    LET h1 == [h EXCEPT !.request_count = @ + 1, !.method = "POST",
                        !.path = req.path, !.framed = Framed(req.cl),
                        !.req_body = FramedBody(req.sent, req.cl),
                        !.close_connection = parse_close_connection(req.ka)]
    IN
    IF urlparse_raises(req.path)
    THEN [h1 EXCEPT !.pc = "raised", !.exc = "Invalid IPv6 URL"]
    ELSE LET n == content_length(req.cl) IN
         IF ~n.ok
         THEN [h1 EXCEPT !.pc = "raised",
                         !.exc = "invalid literal for int() with base 10"]
         ELSE LET body == rfile_read(req.sent, n.n)
                  t == try_decode(body)
                  h2 == [h1 EXCEPT !.nread = n.n, !.body = body]
              IN IF t.ok
                 THEN [h2 EXCEPT !.pc = "sleep", !.data = t.data,
                          !.console = [kind |-> "recv", name |-> name,
                                       n |-> h1.request_count,
                                       id |-> LoggedId(t.data), msg |-> ""]]
                 ELSE [h2 EXCEPT !.pc = "done", !.exc = t.msg,
                          !.console = [kind |-> "err", name |-> name, n |-> 0,
                                       id |-> PyNone, msg |-> t.msg],
                          !.wire = Respond(@, 500, ErrorRecord(t.msg))]

\* do_POST after the sleep (lines 36-46)
do_POST_respond(h, name, now) ==
    [h EXCEPT !.pc = "done", !.ts = now,
              !.wire = Respond(@, 200, SuccessRecord(name, h.data, now))]

\* do_GET (lines 58-66)
do_GET_routed(h, name, req, now) ==
    [h EXCEPT !.pc = "done", !.method = "GET", !.path = req.path, !.ts = now,
              !.framed = Framed(req.cl),
              !.req_body = FramedBody(req.sent, req.cl),
              !.close_connection = parse_close_connection(req.ka),
              !.wire = Respond(@, IF req.path = GoodPath THEN 200 ELSE 404,
                               HealthRecord(name, now))]
do_GET(h, name, req, now) ==
    [h EXCEPT !.pc = "done", !.method = "GET", !.path = req.path, !.ts = now,
              !.framed = Framed(req.cl),
              !.req_body = FramedBody(req.sent, req.cl),
              !.close_connection = parse_close_connection(req.ka),
              !.wire = Respond(@, 200, HealthRecord(name, now))]

(***************************************************************************)
(* The listener threads (run_mock_server).                                  *)
(***************************************************************************)
\* line 74: the socket is bound and listening once HTTPServer() returns
ServerCreate(p) ==
    /\ Alive /\ thread[p] = "started"
    /\ thread' = [thread EXCEPT ![p] = "bound"]
    /\ server_name' = [server_name EXCEPT ![p] = DefaultServerName]
    /\ UNCHANGED <<main_pc, main_out, backlog, handlers>>

\* lines 75-76
ServerSetName(p) ==
    /\ Alive /\ thread[p] = "bound"
    /\ thread' = [thread EXCEPT ![p] = "named"]
    /\ server_name' = [server_name EXCEPT ![p] = NameArg(p)]
    /\ UNCHANGED <<main_pc, main_out, backlog, handlers>>

\* line 77
ServeForever(p) ==
    /\ Alive /\ thread[p] = "named"
    /\ thread' = [thread EXCEPT ![p] = "serving"]
    /\ UNCHANGED <<main_pc, main_out, server_name, backlog, handlers>>

\* a client connects to a listening socket
Connect(p) ==
    /\ Alive /\ thread[p] \in {"bound", "named", "serving"}
    /\ backlog[p] < MaxBacklog
    /\ backlog' = [backlog EXCEPT ![p] = @ + 1]
    /\ UNCHANGED <<main_pc, main_out, thread, server_name, handlers>>

\* HTTPServer is not a threading server: process_request runs the handler to
\* its end inside serve_forever's loop, and accepts nothing meanwhile
CanAccept_threading(p) == thread[p] = "serving"
CanAccept_global(p) ==
    thread[p] = "serving" /\ \A q \in Ports : handlers[q] = <<>>
CanAccept(p) == thread[p] = "serving" /\ handlers[p] = <<>>

\* serve_forever: accept a connection and construct its handler
Accept(p) ==
    /\ Alive /\ CanAccept(p) /\ backlog[p] > 0
    /\ backlog' = [backlog EXCEPT ![p] = @ - 1]
    /\ handlers' = [handlers EXCEPT ![p] = Append(@, NewHandler)]
    /\ UNCHANGED <<main_pc, main_out, thread, server_name>>

\* handle_one_request: read the request line and headers, call do_GET or
\* do_POST, which runs to its end or to the sleep of line 33
HandleOneRequest(p, i) ==
    /\ Alive /\ handlers[p][i].pc = "init"
    /\ \E req \in Requests, now \in 0..MaxTime :
          /\ req.method = "POST" => now = 0
          /\ handlers' = [handlers EXCEPT ![p][i] =
                IF req.method = "POST"
                THEN do_POST_begin(@, server_name[p], req)
                ELSE do_GET(@, server_name[p], req, now)]
    /\ UNCHANGED <<main_pc, main_out, thread, server_name, backlog>>

\* the end of time.sleep(0.1), then the rest of do_POST
Wake(p, i) ==
    /\ Alive /\ handlers[p][i].pc = "sleep"
    /\ \E now \in 0..MaxTime :
          handlers' = [handlers EXCEPT ![p][i] =
                          do_POST_respond(@, server_name[p], now)]
    /\ UNCHANGED <<main_pc, main_out, thread, server_name, backlog>>

RemoveAt(s, i) == SubSeq(s, 1, i - 1) \o SubSeq(s, i + 1, Len(s))

\* handle() returns when close_connection is set, and shutdown_request closes
\* the connection; otherwise the same instance reads the next request
Finish(p, i) ==
    /\ Alive /\ handlers[p][i].pc \in {"done", "raised"}
    /\ handlers' = [handlers EXCEPT ![p] =
          IF handlers[p][i].close_connection \/ handlers[p][i].pc = "raised"
          THEN RemoveAt(@, i)
          ELSE [@ EXCEPT ![i] = [NewHandler EXCEPT
                    !.request_count = handlers[p][i].request_count]]]
    /\ UNCHANGED <<main_pc, main_out, thread, server_name, backlog>>

(***************************************************************************)
(* The main thread (lines 79-100).                                          *)
(***************************************************************************)
\* lines 81-83 and 86-88
StartThread(p) ==
    /\ main_pc = (IF p = AWS_PORT THEN "start_aws" ELSE "start_azure")
    /\ thread' = [thread EXCEPT ![p] = "started"]
    /\ main_pc' = (IF p = AWS_PORT THEN "start_azure" ELSE "banner")
    /\ UNCHANGED <<main_out, server_name, backlog, handlers>>

\* lines 90-93, then the loop of lines 95-98
Banner ==
    /\ main_pc = "banner"
    /\ main_pc' = "loop"
    /\ main_out' = Append(main_out, "Mock endpoints started:")
    /\ UNCHANGED <<thread, server_name, backlog, handlers>>

\* SIGINT while the main thread is in the try (lines 95-98): KeyboardInterrupt
\* is raised there and caught at line 99
Interrupt ==
    /\ main_pc = "loop"
    /\ main_pc' = "interrupted"
    /\ UNCHANGED <<main_out, thread, server_name, backlog, handlers>>

\* SIGINT before the try (lines 81-93): nothing catches KeyboardInterrupt and
\* the process ends without the message of line 100
InterruptEarly ==
    /\ main_pc \in {"start_aws", "start_azure", "banner"}
    /\ main_pc' = "exited"
    /\ UNCHANGED <<main_out, thread, server_name, backlog, handlers>>

\* both listener threads are daemon threads (lines 82, 87): the interpreter
\* does not wait for them
ExitReady_nondaemon == \A p \in Ports : thread[p] = "unstarted"
ExitReady == TRUE

\* line 100, then the end of the script: the process exits
Shutdown ==
    /\ main_pc = "interrupted"
    /\ ExitReady
    /\ main_out' = Append(main_out, "Shutting down mock servers...")
    /\ main_pc' = "exited"
    /\ UNCHANGED <<thread, server_name, backlog, handlers>>

ListenerStep(p) ==
    \/ ServerCreate(p)
    \/ ServerSetName(p)
    \/ ServeForever(p)
    \/ Connect(p)
    \/ Accept(p)
    \/ \E i \in 1..Len(handlers[p]) :
          \/ HandleOneRequest(p, i)
          \/ Wake(p, i)
          \/ Finish(p, i)

Next ==
    \/ \E p \in Ports : StartThread(p)
    \/ Banner
    \/ Interrupt
    \/ InterruptEarly
    \/ Shutdown
    \/ \E p \in Ports : ListenerStep(p)

Spec == Init /\ [][Next]_vars

(***************************************************************************)
(* What a client reads.  JSONText is the value a token sequence denotes by  *)
(* the JSON grammar (RFC 8259): <<"null">>, <<"boolean", b>>,               *)
(* <<"number", n>>, <<"string", s>>, <<"array", seq>>, <<"object", pairs>>; *)
(* a number is its value, whatever the form of the literal.                 *)
(***************************************************************************)
DOk(v, e) == [ok |-> TRUE, val |-> v, end |-> e]
DFail == [ok |-> FALSE, val |-> <<"null">>, end |-> 0]

RECURSIVE DenoteValue(_, _)
RECURSIVE DenoteElements(_, _, _)
RECURSIVE DenoteMembers(_, _, _)

DenoteElements(s, i, acc) ==
    LET v == DenoteValue(s, i) IN
    IF ~v.ok THEN DFail
    ELSE IF At(s, v.end).k = "rbrack"
    THEN DOk(<<"array", Append(acc, v.val)>>, v.end + 1)
    ELSE IF At(s, v.end).k = "comma"
    THEN DenoteElements(s, v.end + 1, Append(acc, v.val))
    ELSE DFail

DenoteMembers(s, i, acc) ==
    IF At(s, i).k # "string" \/ At(s, i + 1).k # "colon" THEN DFail
    ELSE LET v == DenoteValue(s, i + 2) IN
         IF ~v.ok THEN DFail
         ELSE IF At(s, v.end).k = "rbrace"
         THEN DOk(<<"object", Append(acc, <<s[i].s, v.val>>)>>, v.end + 1)
         ELSE IF At(s, v.end).k = "comma"
         THEN DenoteMembers(s, v.end + 1, Append(acc, <<s[i].s, v.val>>))
         ELSE DFail

DenoteValue(s, i) ==
    LET t == At(s, i) IN
    CASE t.k = "literal" ->
            DOk(IF t.s = "null" THEN <<"null">> ELSE <<"boolean", t.s = "true">>, i + 1)
      [] t.k = "number" -> DOk(<<"number", t.n>>, i + 1)
      [] t.k = "string" -> DOk(<<"string", t.s>>, i + 1)
      [] t.k = "lbrack" ->
            IF At(s, i + 1).k = "rbrack" THEN DOk(<<"array", <<>>>>, i + 2)
            ELSE DenoteElements(s, i + 1, <<>>)
      [] t.k = "lbrace" ->
            IF At(s, i + 1).k = "rbrace" THEN DOk(<<"object", <<>>>>, i + 2)
            ELSE DenoteMembers(s, i + 1, <<>>)
      [] OTHER -> DFail

JSONText(s) ==
    LET r == DenoteValue(s, 1) IN
    IF r.ok /\ r.end = Len(s) + 1 THEN [ok |-> TRUE, val |-> r.val]
    ELSE [ok |-> FALSE, val |-> <<"null">>]

IsObject(v) == v[1] = "object"
HasMember(v, name) == \E k \in 1..Len(v[2]) : v[2][k][1] = name
MemberVal(v, name) == v[2][CHOOSE k \in 1..Len(v[2]) : v[2][k][1] = name][2]
MemberIs(v, name, x) == HasMember(v, name) /\ MemberVal(v, name) = x

\* the handlers of a listener, and those whose do_POST or do_GET has ended
HandlerIds(p) == 1..Len(handlers[p])
Finished(h) == h.pc \in {"done", "raised"}

\* the connection carries exactly one response with this status: the status
\* line and headers, then one JSON body
OneResponse(h, status) ==
    /\ Len(h.wire) = 2
    /\ h.wire[1].part = "head" /\ h.wire[1].status = status
    /\ h.wire[1].ctype = "application/json"
    /\ h.wire[2].part = "body" /\ JSONText(h.wire[2].text).ok
    /\ IsObject(JSONText(h.wire[2].text).val)
ResponseJSON(h) == JSONText(h.wire[2].text).val

\* the 200 response with the success record
IsSuccess(h) ==
    /\ OneResponse(h, 200)
    /\ MemberIs(ResponseJSON(h), "success", <<"boolean", TRUE>>)
    /\ HasMember(ResponseJSON(h), "message")
    /\ HasMember(ResponseJSON(h), "id")
    /\ HasMember(ResponseJSON(h), "timestamp")
    /\ ~HasMember(ResponseJSON(h), "error")

\* the 500 response with the error record
IsError(h) ==
    /\ OneResponse(h, 500)
    /\ Len(ResponseJSON(h)[2]) = 1
    /\ HasMember(ResponseJSON(h), "error")
    /\ MemberVal(ResponseJSON(h), "error")[1] = "string"
    /\ MemberVal(ResponseJSON(h), "error")[2] # ""

\* the body of a POST is JSON text that is an object with a member id
BodyHasId(h) ==
    /\ h.framed /\ JSONText(h.req_body).ok
    /\ IsObject(JSONText(h.req_body).val)
    /\ HasMember(JSONText(h.req_body).val, "id")
BodyId(h) == MemberVal(JSONText(h.req_body).val, "id")

\* the body of a POST is JSON text with no member id at its top level
BodyLacksId(h) ==
    /\ h.framed /\ JSONText(h.req_body).ok
    /\ ~(IsObject(JSONText(h.req_body).val)
         /\ HasMember(JSONText(h.req_body).val, "id"))

\* the body of a POST is not JSON text
BodyNotJSON(h) == h.framed /\ ~JSONText(h.req_body).ok

(***************************************************************************)
(* C1.  A POST whose body is valid JSON with id = X is answered 200 with    *)
(* the success record, success = true and id = X.                           *)
(***************************************************************************)
C1_IdEchoed ==
    \A p \in Ports : \A i \in HandlerIds(p) :
        LET h == handlers[p][i] IN
        (h.method = "POST" /\ Finished(h) /\ BodyHasId(h)) =>
            IsSuccess(h) /\ MemberIs(ResponseJSON(h), "id", BodyId(h))

\* C1 for the POSTs whose do_POST reached the try block (line 28)
C1_IdEchoed_InTry ==
    \A p \in Ports : \A i \in HandlerIds(p) :
        LET h == handlers[p][i] IN
        (h.method = "POST" /\ h.pc = "done" /\ BodyHasId(h)) =>
            IsSuccess(h) /\ MemberIs(ResponseJSON(h), "id", BodyId(h))

(***************************************************************************)
(* C2.  A POST whose body is valid JSON without an id, whatever JSON value  *)
(* it is, is answered with the success record and id = null.                *)
(***************************************************************************)
C2_NullIdForAnyJSON ==
    \A p \in Ports : \A i \in HandlerIds(p) :
        LET h == handlers[p][i] IN
        (h.method = "POST" /\ Finished(h) /\ BodyLacksId(h)) =>
            IsSuccess(h) /\ MemberIs(ResponseJSON(h), "id", <<"null">>)

\* C2 for the POSTs whose do_POST reached the try block and whose body is a
\* JSON object
C2_NullIdForObject_InTry ==
    \A p \in Ports : \A i \in HandlerIds(p) :
        LET h == handlers[p][i] IN
        (h.method = "POST" /\ h.pc = "done" /\ BodyLacksId(h)
            /\ IsObject(JSONText(h.req_body).val)) =>
            IsSuccess(h) /\ MemberIs(ResponseJSON(h), "id", <<"null">>)

(***************************************************************************)
(* C3.  A POST whose body is not decodable as JSON (an empty body too) is   *)
(* answered 500 with an error record whose error is a non-empty string,     *)
(* and never with the success record.                                       *)
(***************************************************************************)
C3_Malformed500 ==
    \A p \in Ports : \A i \in HandlerIds(p) :
        LET h == handlers[p][i] IN
        (h.method = "POST" /\ Finished(h) /\ BodyNotJSON(h)) =>
            IsError(h) /\ ~IsSuccess(h)

\* C3 for the POSTs whose do_POST reached the try block
C3_Malformed500_InTry ==
    \A p \in Ports : \A i \in HandlerIds(p) :
        LET h == handlers[p][i] IN
        (h.method = "POST" /\ h.pc = "done" /\ BodyNotJSON(h)) =>
            IsError(h) /\ ~IsSuccess(h)

(***************************************************************************)
(* C4.  Every GET, whatever its path and whatever was handled before, is    *)
(* answered 200 with status = "healthy"; do_GET has no other outcome, reads *)
(* no body and leaves the request counter alone.                            *)
(***************************************************************************)
C4_GetHealthy ==
    \A p \in Ports : \A i \in HandlerIds(p) :
        LET h == handlers[p][i] IN
        h.method = "GET" =>
            /\ h.pc = "done"
            /\ OneResponse(h, 200)
            /\ MemberIs(ResponseJSON(h), "status", <<"string", "healthy">>)
            /\ HasMember(ResponseJSON(h), "service")
            /\ HasMember(ResponseJSON(h), "timestamp")
            /\ h.nread = 0 /\ h.body = <<>>
            /\ h.request_count = 0

C4_Witness ==
    /\ \E i \in HandlerIds(AZURE_PORT) :
          /\ handlers[AZURE_PORT][i].method = "GET"
          /\ handlers[AZURE_PORT][i].path = BadPath
          /\ handlers[AZURE_PORT][i].req_body # <<>>
          /\ handlers[AZURE_PORT][i].pc = "done"
    /\ \E i \in HandlerIds(AWS_PORT) :
          handlers[AWS_PORT][i].pc = "raised"

(***************************************************************************)
(* C5.  The label in every response of the port-8081 listener is "AWS-API"  *)
(* and in every response of the port-8082 listener "Azure-API": the service *)
(* of a GET response and the name in a POST success message.  The label is  *)
(* bound before the listener serves and does not change afterwards.         *)
(***************************************************************************)
LabelOfPort(p) == IF p = 8081 THEN "AWS-API" ELSE "Azure-API"

C5_Labels ==
    \A p \in Ports :
        /\ (thread[p] = "serving" \/ handlers[p] # <<>>) =>
              server_name[p] = LabelOfPort(p)
        /\ \A i \in HandlerIds(p) :
              LET h == handlers[p][i] IN
              /\ (h.pc = "done" /\ h.method = "GET") =>
                    MemberIs(ResponseJSON(h), "service",
                             <<"string", LabelOfPort(p)>>)
              /\ (h.pc = "done" /\ h.method = "POST" /\ h.wire[1].status = 200) =>
                    MemberIs(ResponseJSON(h), "message",
                        <<"string", "Data saved successfully to " \o LabelOfPort(p)>>)
              /\ h.console.kind # "none" => h.console.name = LabelOfPort(p)

C5_Witness ==
    /\ \E i \in HandlerIds(8081) :
          /\ handlers[8081][i].pc = "done" /\ handlers[8081][i].method = "POST"
          /\ handlers[8081][i].wire[1].status = 200
    /\ \E i \in HandlerIds(8082) :
          handlers[8082][i].pc = "done" /\ handlers[8082][i].method = "GET"

(***************************************************************************)
(* C6.  Every POST that do_POST handles ends with exactly one response:     *)
(* the 200 with the success record or the 500 with the error record, never  *)
(* both, and never a 500 after part of a 200.                               *)
(***************************************************************************)
C6_ExactlyOneResponse ==
    \A p \in Ports : \A i \in HandlerIds(p) :
        LET h == handlers[p][i] IN
        (h.method = "POST" /\ Finished(h)) =>
            (IsSuccess(h) /\ ~IsError(h)) \/ (IsError(h) /\ ~IsSuccess(h))

\* C6 for the POSTs whose do_POST reached the try block
C6_ExactlyOneResponse_InTry ==
    \A p \in Ports : \A i \in HandlerIds(p) :
        LET h == handlers[p][i] IN
        (h.method = "POST" /\ h.pc = "done") =>
            (IsSuccess(h) /\ ~IsError(h)) \/ (IsError(h) /\ ~IsSuccess(h))

(***************************************************************************)
(* C7.  Within one listener requests are handled one at a time: never two   *)
(* handlers of the same listener at once, and while a request is being      *)
(* handled (in its delay, say) a waiting connection is not accepted.        *)
(***************************************************************************)
C7_OneAtATime ==
    \A p \in Ports :
        /\ Len(handlers[p]) <= 1
        /\ handlers[p] # <<>> => ~ENABLED Accept(p)

C7_Witness ==
    \E p \in Ports :
        /\ Len(handlers[p]) = 1 /\ handlers[p][1].pc = "sleep"
        /\ backlog[p] > 0

(***************************************************************************)
(* C8.  The two listeners are independent: whatever the other listener is   *)
(* doing, a listener can accept its waiting connection and carry on with    *)
(* the request it is handling; no step changes the state of both; and the   *)
(* responses of the two listeners to the same request differ only in the    *)
(* label.                                                                   *)
(***************************************************************************)
ListenerState(p) == <<thread[p], server_name[p], backlog[p], handlers[p]>>

\* a JSON object without the members that carry the label
WithoutLabel(v) ==
    <<"object", SelectSeq(v[2], LAMBDA m : m[1] \notin {"message", "service"})>>

C8_NotBlocked ==
    \A p \in Ports :
        Alive =>
            /\ (thread[p] = "serving" /\ handlers[p] = <<>> /\ backlog[p] > 0) =>
                  ENABLED Accept(p)
            /\ \A i \in HandlerIds(p) :
                  /\ handlers[p][i].pc = "init" => ENABLED HandleOneRequest(p, i)
                  /\ handlers[p][i].pc = "sleep" => ENABLED Wake(p, i)
                  /\ Finished(handlers[p][i]) => ENABLED Finish(p, i)

C8_SameRequestSameResponse ==
    \A i \in HandlerIds(AWS_PORT) : \A j \in HandlerIds(AZURE_PORT) :
        LET h == handlers[AWS_PORT][i]
            g == handlers[AZURE_PORT][j]
        IN (/\ h.pc = "done" /\ g.pc = "done"
            /\ h.method = g.method /\ h.path = g.path
            /\ h.framed = g.framed /\ h.req_body = g.req_body /\ h.ts = g.ts) =>
               /\ h.wire[1] = g.wire[1]
               /\ WithoutLabel(ResponseJSON(h)) = WithoutLabel(ResponseJSON(g))

C8_OneListenerPerStep ==
    \A p \in Ports : \A q \in Ports \ {p} :
        ListenerState(p)' = ListenerState(p) \/ ListenerState(q)' = ListenerState(q)

C8_Independent ==
    /\ [](C8_NotBlocked /\ C8_SameRequestSameResponse)
    /\ [][C8_OneListenerPerStep]_vars

C8_Witness ==
    /\ Alive
    /\ Len(handlers[AWS_PORT]) = 1 /\ handlers[AWS_PORT][1].pc = "sleep"
    /\ thread[AZURE_PORT] = "serving" /\ handlers[AZURE_PORT] = <<>>
    /\ backlog[AZURE_PORT] > 0

(***************************************************************************)
(* C9.  The request number of the log line is a counter of the handler      *)
(* instance: 0 at construction, incremented once by each POST before the    *)
(* body is decoded (also when the POST ends in 500) and never by a GET,     *)
(* never decreasing, not shared, and never above 1: every logged number is  *)
(* 1.                                                                       *)
(***************************************************************************)
C9_CounterValues ==
    \A p \in Ports : \A i \in HandlerIds(p) :
        LET h == handlers[p][i] IN
        /\ h.request_count \in {0, 1}
        /\ h.method = "POST" => h.request_count = 1
        /\ h.method = "GET" => h.request_count = 0
        /\ h.console.kind = "recv" => h.console.n = 1

C9_CounterSteps ==
    \A p \in Ports :
        /\ Len(handlers'[p]) > Len(handlers[p]) =>
              handlers'[p][Len(handlers'[p])].request_count = 0
        /\ (Len(handlers'[p]) = Len(handlers[p])) =>
              \A i \in HandlerIds(p) :
                 /\ handlers'[p][i].request_count >= handlers[p][i].request_count
                 /\ handlers'[p][i].request_count <= handlers[p][i].request_count + 1
        /\ \A q \in Ports \ {p} :
              handlers'[p] # handlers[p] => handlers'[q] = handlers[q]

C9_Counter == []C9_CounterValues /\ [][C9_CounterSteps]_vars

C9_Witness ==
    \E p \in Ports : \E i \in HandlerIds(p) :
        /\ handlers[p][i].method = "POST" /\ handlers[p][i].pc = "done"
        /\ handlers[p][i].wire[1].status = 500
        /\ handlers[p][i].request_count = 1
        /\ \E q \in Ports \ {p} : \E j \in HandlerIds(q) :
              /\ handlers[q][j].console.kind = "recv"
              /\ handlers[q][j].console.n = 1

(***************************************************************************)
(* C10.  Once both listeners are started the main thread blocks until an    *)
(* interrupt; the interrupt makes the process print the shutdown message    *)
(* and end without joining or draining the listener threads, whatever       *)
(* state they are in.                                                       *)
(***************************************************************************)
\* the responses written so far, and the handlers constructed so far, do not
\* grow in this step
NothingAnswered ==
    \A p \in Ports :
        /\ Len(handlers'[p]) <= Len(handlers[p])
        /\ Len(handlers'[p]) = Len(handlers[p]) =>
              \A i \in HandlerIds(p) :
                 Len(handlers'[p][i].wire) = Len(handlers[p][i].wire)
NothingAccepted ==
    \A p \in Ports :
        /\ Len(handlers'[p]) <= Len(handlers[p])
        /\ backlog'[p] >= backlog[p]

C10_MainSteps ==
    /\ (main_pc = "loop" /\ main_pc' # "loop") => main_pc' = "interrupted"
    /\ (main_pc = "interrupted" /\ main_pc' # "interrupted") =>
          /\ main_pc' = "exited"
          /\ main_out' = Append(main_out, "Shutting down mock servers...")
          /\ handlers' = handlers /\ backlog' = backlog /\ thread' = thread
    /\ main_pc \in {"loop", "interrupted"} =>
          \A p \in Ports : thread[p] # "unstarted"

\* the claim as written: from the interrupt on, no request in flight is
\* answered and no request is accepted
C10_AbandonedAtInterrupt ==
    /\ [](main_pc = "interrupted" => ENABLED Shutdown)
    /\ [][/\ C10_MainSteps
          /\ main_pc \in {"interrupted", "exited"} =>
                NothingAnswered /\ NothingAccepted]_vars

\* the claim as amended: from the end of the process on, no request in
\* flight is answered and no request is accepted
C10_AbandonedAtExit ==
    /\ [](main_pc = "interrupted" => ENABLED Shutdown)
    /\ [][/\ C10_MainSteps
          /\ main_pc = "exited" => NothingAnswered /\ NothingAccepted]_vars

C10_Witness ==
    /\ main_pc = "exited"
    /\ main_out = <<"Mock endpoints started:", "Shutting down mock servers...">>
    /\ Len(handlers[AWS_PORT]) = 1 /\ handlers[AWS_PORT][1].pc = "sleep"
    /\ handlers[AWS_PORT][1].wire = <<>>
    /\ backlog[AZURE_PORT] > 0

====
